---- MODULE Spec2Model ----
(***************************************************************************)
(* Model of src/app.py, the NYC crime data dashboard.                      *)
(*                                                                         *)
(* The script is a Streamlit page: it is re-run from top to bottom at the  *)
(* start of the session and after every widget interaction.  One action    *)
(* of the model is one such run of the whole script.                       *)
(*                                                                         *)
(* A data frame is a record [columns, rows]; a row is a function from the  *)
(* column names, plus "index" (the pandas index label), to cell values.    *)
(* A float cell is <<>> (NaN) or <<x>>; a missing string cell is NaN.      *)
(* A timestamp cell is <<year, month, hour>>; timestamps and offence       *)
(* descriptions of the modelled CSV files are always present and valid.    *)
(***************************************************************************)
EXTENDS Integers, Sequences, FiniteSets, TLC

\* ------------------------------------------------------------------ bounds

\* Longest CSV file (number of data rows) the model reads.
MaxRows == 2

\* ------------------------------------------------------------ cell values

NaN == "NaN"
None == [columns |-> {}, rows |-> <<>>, none |-> TRUE]
NoFile == [columns |-> {}, rows |-> <<>>, missing |-> TRUE]

IsNaNf(c) == c = <<>>

dt_year(ts) == ts[1]
dt_month(ts) == ts[2]
dt_hour(ts) == ts[3]

calendar_month_name ==
  <<"January", "February", "March", "April", "May", "June", "July",
    "August", "September", "October", "November", "December">>

dt_month_name(ts) == calendar_month_name[ts[2]]

\* ------------------------------------------------------------ seq helpers

RECURSIVE SeqFilter(_, _)
\* The elements of s, in order, whose position is in keep.
SeqFilter(s, keep) ==
  IF s = <<>> THEN <<>>
  ELSE LET n == Len(s)
           init == SeqFilter(SubSeq(s, 1, n - 1), keep)
       IN IF n \in keep THEN Append(init, s[n]) ELSE init

Range(s) == {s[i] : i \in 1..Len(s)}

RECURSIVE sorted(_)
\* Python's sorted() over a set of integers: ascending.
sorted(S) ==
  IF S = {} THEN <<>>
  ELSE LET m == CHOOSE x \in S : \A y \in S : x <= y
       IN <<m>> \o sorted(S \ {m})

RECURSIVE unique(_)
\* pandas Series.unique(): distinct values in order of first appearance.
unique(s) ==
  IF s = <<>> THEN <<>>
  ELSE LET n == Len(s)
           init == unique(SubSeq(s, 1, n - 1))
       IN IF s[n] \in Range(init) THEN init ELSE Append(init, s[n])

Column(frame, c) == [i \in 1..Len(frame.rows) |-> frame.rows[i][c]]

\* -------------------------------------------------------------- the loader

\* df[mask]: the rows at the positions where the mask is true, in order,
\* with their labels.
Mask(frame, mask) == [frame EXCEPT !.rows = SeqFilter(frame.rows, mask)]

\* df.dropna(subset=['latitude', 'longitude'])
dropna(frame) ==
  Mask(frame, {i \in 1..Len(frame.rows) :
                 /\ ~IsNaNf(frame.rows[i]["latitude"])
                 /\ ~IsNaNf(frame.rows[i]["longitude"])})

\* df[(df['latitude'] != 0) & (df['longitude'] != 0)]
nonzero(frame) ==
  Mask(frame, {i \in 1..Len(frame.rows) :
                 /\ frame.rows[i]["latitude"] # <<0>>
                 /\ frame.rows[i]["longitude"] # <<0>>})

TimeFeatures == {"year", "month", "month_name", "day_of_week", "hour"}

\* df['year'] = df['arrest_date'].dt.year, and the four other features.
\* day_of_week is never read again and carries the month name as a stand-in.
time_features(frame) ==
  [columns |-> frame.columns \cup TimeFeatures,
   rows |-> [i \in 1..Len(frame.rows) |->
      LET r == frame.rows[i]
      IN [c \in (DOMAIN r) \cup TimeFeatures |->
            CASE c = "year" -> dt_year(r["arrest_date"])
              [] c = "month" -> dt_month(r["arrest_date"])
              [] c = "month_name" -> dt_month_name(r["arrest_date"])
              [] c = "day_of_week" -> dt_month_name(r["arrest_date"])
              [] c = "hour" -> dt_hour(r["arrest_date"])
              [] OTHER -> r[c]]]]

Ok(frame) == [exc |-> "", names |-> {}, df |-> frame]
Raise(kind, cols) == [exc |-> kind, names |-> cols, df |-> None]

\* The preprocessing block shared by load_data and the upload fallback.
\* A subscript with an absent column raises KeyError naming it.
preprocess(frame) ==
  IF "arrest_date" \notin frame.columns
    THEN Raise("KeyError", {"arrest_date"})
  ELSE IF {"latitude", "longitude"} \ frame.columns # {}
    THEN Raise("KeyError", {"latitude", "longitude"} \ frame.columns)
  ELSE Ok(time_features(nonzero(dropna(frame))))

\* load_data(): None when arrests.csv does not exist.
load_data(csv) ==
  IF csv = NoFile THEN Ok(None) ELSE preprocess(csv)

\* The upload fallback: an uploaded file without an arrest_date column is
\* used as read.
load_upload(file) ==
  IF "arrest_date" \in file.columns THEN preprocess(file) ELSE Ok(file)

\* ------------------------------------------------------- pandas helpers

\* The offence descriptions of the model in ascending str order, which is
\* the order list.sort() and Series.mode() produce.
lexical_order ==
  <<"ASSAULT 3 & RELATED OFFENSES", "BURGLARY", "ROBBERY", "THEFT-FRAUD">>

LexRank(c) == CHOOSE i \in 1..Len(lexical_order) : lexical_order[i] = c

\* Ascending sequence of a set of offence descriptions.
LexSorted(S) ==
  LET ranks == sorted({LexRank(c) : c \in S})
  IN [i \in 1..Len(ranks) |-> lexical_order[ranks[i]]]

\* Number of positions of s holding v.
Count(s, v) == Cardinality({i \in 1..Len(s) : s[i] = v})

\* The null values a column can hold: NaN in the string columns; the time
\* features are never null, every timestamp being present.
na_values(c) == IF c \in {"ofns_desc", "arrest_boro"} THEN {NaN} ELSE {}

\* df[c].value_counts(): the count of every distinct non-null value of the
\* column, as a mapping from the value.
value_counts(frame, c) ==
  [v \in Range(Column(frame, c)) \ na_values(c) |-> Count(Column(frame, c), v)]

\* Series.sort_index() of an integer-keyed mapping: ascending by key.
sort_index(counts) ==
  LET keys == sorted(DOMAIN counts)
  IN [i \in 1..Len(keys) |-> [index |-> keys[i], count |-> counts[keys[i]]]]

\* mode() without its final sort: the most frequent values in order of
\* first appearance.
mode_first_seen(frame) ==
  LET counts == value_counts(frame, "ofns_desc")
      seen == unique(Column(frame, "ofns_desc"))
  IN SeqFilter(seen, {i \in 1..Len(seen) :
                        /\ seen[i] \in DOMAIN counts
                        /\ \A w \in DOMAIN counts :
                             counts[w] <= counts[seen[i]]})

\* df['ofns_desc'].mode(): the non-null values with the highest count,
\* sorted.
mode(frame) ==
  LET counts == value_counts(frame, "ofns_desc")
  IN LexSorted({v \in DOMAIN counts :
                  \A w \in DOMAIN counts : counts[w] <= counts[v]})

\* df[...].groupby(['month', 'month_name']).size().reset_index(name='arrests')
groupby_month_size(frame) ==
  LET months == sorted(Range(Column(frame, "month")))
  IN [i \in 1..Len(months) |->
        [month |-> months[i],
         month_name |-> calendar_month_name[months[i]],
         arrests |-> Count(Column(frame, "month"), months[i])]]

\* ------------------------------------------------------------ the filters

target_crime_types ==
  <<"ROBBERY", "ASSAULT 3 & RELATED OFFENSES",
    "OFFENSES AGAINST PUBLIC SAFETY", "KIDNAPPING & RELATED OFFENSES",
    "THEFT-FRAUD">>

\* all_crime_types: the distinct offence descriptions, sorted.
all_crime_types(df) == LexSorted(Range(Column(df, "ofns_desc")))

available_target_crimes(df) ==
  SeqFilter(target_crime_types,
            {i \in 1..Len(target_crime_types) :
               target_crime_types[i] \in Range(all_crime_types(df))})

other_crimes(df) ==
  SeqFilter(all_crime_types(df),
            {i \in 1..Len(all_crime_types(df)) :
               all_crime_types(df)[i] \notin Range(target_crime_types)})

crime_types_ordered(df) == available_target_crimes(df) \o other_crimes(df)

available_months(df) == sorted(Range(Column(df, "month")))

available_years(df) == sorted(Range(Column(df, "year")))

\* available_boroughs without the pd.notna filter.
available_boroughs_with_nan(df) == unique(Column(df, "arrest_boro"))

available_boroughs(df) ==
  LET all == unique(Column(df, "arrest_boro"))
  IN SeqFilter(all, {i \in 1..Len(all) : all[i] # NaN})

\* The mask without its year conjunct.
matches_any_year(r, crimes, month, year, boroughs) ==
  /\ r["ofns_desc"] \in crimes
  /\ r["month"] = month
  /\ r["arrest_boro"] \in boroughs

\* The boolean mask of filtered_df.
matches(r, crimes, month, year, boroughs) ==
  /\ r["ofns_desc"] \in crimes
  /\ r["month"] = month
  /\ r["year"] = year
  /\ r["arrest_boro"] \in boroughs

\* filtered_df = df[mask].copy()
filter_df(df, crimes, month, year, boroughs) ==
  Mask(df, {i \in 1..Len(df.rows) :
              matches(df.rows[i], crimes, month, year, boroughs)})

\* The mask of monthly_data: the month is not part of it.
trend_scope(df, crimes, year, boroughs) ==
  Mask(df, {i \in 1..Len(df.rows) :
              /\ df.rows[i]["ofns_desc"] \in crimes
              /\ df.rows[i]["year"] = year
              /\ df.rows[i]["arrest_boro"] \in boroughs})

monthly_trend(df, crimes, year, boroughs) ==
  groupby_month_size(trend_scope(df, crimes, year, boroughs))

\* The metric without its emptiness test: iloc[0] of an empty Series.
top_crime_type_unchecked(most_common_crime) ==
  IF most_common_crime # <<>>
    THEN [exc |-> "", value |-> most_common_crime[1]]
    ELSE [exc |-> "IndexError", value |-> ""]

\* The value of the "Top Crime Type" metric.
top_crime_type(most_common_crime) ==
  IF most_common_crime # <<>>
    THEN [exc |-> "", value |-> most_common_crime[1]]
    ELSE [exc |-> "", value |-> "N/A"]

\* ------------------------------------------------------------- the colors

standard_colors ==
  <<"red", "blue", "green", "purple", "orange", "brown",
    "pink", "gray", "olive", "cyan", "yellow", "magenta">>

color_dict ==
  <<<<255, 0, 0>>, <<0, 0, 255>>, <<0, 255, 0>>, <<128, 0, 128>>,
    <<255, 165, 0>>, <<165, 42, 42>>, <<255, 192, 203>>, <<128, 128, 128>>,
    <<128, 128, 0>>, <<0, 255, 255>>, <<255, 255, 0>>, <<255, 0, 255>>>>

\* color_to_rgb of a colour name: its color_dict entry, red when unknown.
color_to_rgb(color) ==
  IF \E i \in 1..Len(standard_colors) : standard_colors[i] = color
    THEN color_dict[CHOOSE i \in 1..Len(standard_colors) :
                      standard_colors[i] = color]
    ELSE <<255, 0, 0>>

\* color_map[crime] = standard_colors[i % len(standard_colors)], i being the
\* position of the crime in unique_crimes (0-based).
color_map(unique_crimes, crime) ==
  IF crime \in Range(unique_crimes)
    THEN standard_colors[
           (((CHOOSE i \in 1..Len(unique_crimes) : unique_crimes[i] = crime) - 1)
              % Len(standard_colors)) + 1]
    ELSE "red"

\* A frame with the color column added to every row.
with_color(frame, unique_crimes) ==
  [columns |-> frame.columns \cup {"color"},
   rows |-> [i \in 1..Len(frame.rows) |->
      LET r == frame.rows[i]
      IN [c \in (DOMAIN r) \cup {"color"} |->
            IF c = "color"
              THEN color_to_rgb(color_map(unique_crimes, r["ofns_desc"]))
              ELSE r[c]]]]

\* The color column written through to the table, as when filtered_df is
\* the table itself and not a copy.
add_color_in_place(df, filtered_df) ==
  [df |-> with_color(df, unique(Column(filtered_df, "ofns_desc"))),
   filtered_df |->
     with_color(filtered_df, unique(Column(filtered_df, "ofns_desc")))]

\* filtered_df['color'] = ...: the two frames of the script after the
\* assignment.  Only the copy made by the filter is written.
add_color(df, filtered_df) ==
  [df |-> df,
   filtered_df |->
     with_color(filtered_df, unique(Column(filtered_df, "ofns_desc")))]

\* ---------------------------------------------------------------- the map

satellite_style == "mapbox://styles/mapbox/satellite-streets-v12"

street_styles ==
  <<"mapbox://styles/mapbox/streets-v12",
    "mapbox://styles/mapbox/streets-v11",
    "mapbox://styles/mapbox/light-v11",
    "road">>

map_types == <<"Standard Streamlit Map", "Satellite View", "Street Map">>

RECURSIVE street_loop_no_break(_, _, _)
\* The loop without its break: every style is tried, every style that
\* renders is shown.
street_loop_no_break(i, fails, attempts) ==
  IF i > Len(street_styles)
    THEN [map_displayed |-> FALSE, attempts |-> attempts, maps |-> <<>>]
  ELSE LET rest == street_loop_no_break(i + 1, fails,
                                        Append(attempts, street_styles[i]))
       IN IF street_styles[i] \in fails THEN rest
          ELSE [map_displayed |-> TRUE, attempts |-> rest.attempts,
                maps |-> <<street_styles[i]>> \o rest.maps]

RECURSIVE street_loop(_, _, _)
\* for style in street_styles: try pydeck_chart; break / except: continue.
\* i is the position of the style tried next, fails the styles whose
\* rendering raises in this run, attempts the styles tried so far.  A call
\* that raises renders nothing.
street_loop(i, fails, attempts) ==
  IF i > Len(street_styles)
    THEN [map_displayed |-> FALSE, attempts |-> attempts, maps |-> <<>>]
  ELSE IF street_styles[i] \in fails
    THEN street_loop(i + 1, fails, Append(attempts, street_styles[i]))
  ELSE [map_displayed |-> TRUE,
        attempts |-> Append(attempts, street_styles[i]),
        maps |-> <<street_styles[i]>>]

\* The Street Map branch: the loop, then the standard map when no style
\* was displayed.  filtered_df is not empty here.
street_map(fails) ==
  LET loop == street_loop(1, fails, <<>>)
  IN IF ~loop.map_displayed
       THEN [attempts |-> loop.attempts,
             maps |-> loop.maps \o <<"st.map">>,
             warnings |-> <<"3D-Karte nicht verfuegbar">>]
       ELSE [attempts |-> loop.attempts,
             maps |-> loop.maps,
             warnings |-> <<>>]

\* The Satellite View branch.
satellite_map(fails) ==
  IF satellite_style \in fails
    THEN [attempts |-> <<satellite_style>>,
          maps |-> <<"st.map">>,
          warnings |-> <<"Satellitenkarte nicht verfuegbar">>]
    ELSE [attempts |-> <<satellite_style>>,
          maps |-> <<satellite_style>>,
          warnings |-> <<>>]

\* if map_type == ...: the three branches, for a non-empty filtered_df.
render_map(map_type, fails) ==
  IF map_type = "Standard Streamlit Map"
    THEN [attempts |-> <<>>, maps |-> <<"st.map">>, warnings |-> <<>>]
  ELSE IF map_type = "Satellite View" THEN satellite_map(fails)
  ELSE street_map(fails)

\* The styles whose rendering the run with this map type attempts.
styles_of(map_type) ==
  IF map_type = "Satellite View" THEN {satellite_style}
  ELSE IF map_type = "Street Map" THEN Range(street_styles)
  ELSE {}

\* ------------------------------------------------------------- the script

\* The stored state of a widget: <<>> before its first rendering (the widget
\* then takes its default), <<v>> afterwards.
Widget(stored, default) == IF stored = <<>> THEN default ELSE stored[1]

FreshUi ==
  [selected_crimes |-> <<>>, selected_month |-> <<>>, selected_year |-> <<>>,
   selected_boroughs |-> <<>>, map_type |-> <<>>, show_trend |-> <<>>]

NoError == [exc |-> "", names |-> {}]

\* What a run leaves on the page when it ends before the filters.
BlankPage(status, error, df) ==
  [status |-> status, error |-> error, df |-> df,
   selected_crimes |-> {}, selected_month |-> 0, selected_year |-> 0,
   selected_boroughs |-> {}, map_type |-> "", show_trend |-> FALSE,
   filtered_df |-> None, total_arrests |-> 0,
   top_crime_type |-> "", attempts |-> <<>>, maps |-> <<>>,
   warnings |-> <<>>, charts |-> <<>>, crime_counts |-> <<>>,
   hourly_counts |-> <<>>, borough_counts |-> <<>>, monthly_data |-> <<>>,
   vline_x |-> <<>>, fails |-> {},
   summary |-> [total_records |-> 0, filtered_records |-> 0],
   ui |-> FreshUi]

\* The columns the script subscripts before the filter, in order.
main_columns == <<"ofns_desc", "month", "year", "arrest_boro">>

\* The first absent column the main block subscripts, as a set.
first_missing(df) ==
  LET absent == {i \in 1..Len(main_columns) : main_columns[i] \notin df.columns}
  IN IF absent = {} THEN {}
     ELSE {main_columns[CHOOSE i \in absent : \A j \in absent : i <= j]}

\* The "if not filtered_df.empty" block: colors, map, charts, trend.
analytics(page, ui, fails) ==
  LET colored == add_color(page.df, page.filtered_df)
      map_type == Widget(ui.map_type, map_types[1])
      show_trend == Widget(ui.show_trend, FALSE)
      map == render_map(map_type, fails)
      many == Cardinality(page.selected_boroughs) > 1
  IN [page EXCEPT
        !.df = colored.df,
        !.filtered_df = colored.filtered_df,
        !.map_type = map_type,
        !.show_trend = show_trend,
        !.fails = fails,
        !.attempts = map.attempts,
        !.maps = map.maps,
        !.warnings = map.warnings,
        !.crime_counts = value_counts(page.filtered_df, "ofns_desc"),
        !.hourly_counts =
           sort_index(value_counts(page.filtered_df, "hour")),
        !.borough_counts =
           IF many THEN value_counts(page.filtered_df, "arrest_boro")
           ELSE <<>>,
        !.monthly_data =
           IF show_trend
             THEN monthly_trend(page.df, page.selected_crimes,
                                page.selected_year, page.selected_boroughs)
             ELSE <<>>,
        !.vline_x = IF show_trend THEN <<page.selected_month - 1>> ELSE <<>>,
        !.charts = <<"fig_pie", "fig_bar">>
                   \o (IF many THEN <<"fig_borough">> ELSE <<>>)
                   \o (IF show_trend THEN <<"fig_trend">> ELSE <<>>),
        !.ui = [@ EXCEPT !.map_type = <<map_type>>,
                         !.show_trend = <<show_trend>>]]

\* The main block (line 88 on) for a frame that is not empty.
main(df, ui, fails) ==
  IF first_missing(df) # {}
    THEN BlankPage("raised",
                   [exc |-> "KeyError", names |-> first_missing(df)], df)
  ELSE
  LET selected_crimes ==
        Widget(ui.selected_crimes, Range(available_target_crimes(df)))
      selected_month == Widget(ui.selected_month, available_months(df)[1])
      years == available_years(df)
      selected_year ==
        IF Len(years) > 1 THEN Widget(ui.selected_year, years[Len(years)])
        ELSE years[1]
      selected_boroughs ==
        Widget(ui.selected_boroughs, Range(available_boroughs(df)))
      filtered_df == filter_df(df, selected_crimes, selected_month,
                               selected_year, selected_boroughs)
      top == top_crime_type(mode(filtered_df))
      rendered ==
        [FreshUi EXCEPT
           !.selected_crimes = <<selected_crimes>>,
           !.selected_month = <<selected_month>>,
           !.selected_year = IF Len(years) > 1 THEN <<selected_year>> ELSE <<>>,
           !.selected_boroughs = <<selected_boroughs>>]
      page == [BlankPage("done", NoError, df) EXCEPT
                 !.selected_crimes = selected_crimes,
                 !.selected_month = selected_month,
                 !.selected_year = selected_year,
                 !.selected_boroughs = selected_boroughs,
                 !.filtered_df = filtered_df,
                 !.total_arrests = Len(filtered_df.rows),
                 !.top_crime_type = top.value,
                 !.summary = [total_records |-> Len(df.rows),
                              filtered_records |-> Len(filtered_df.rows)],
                 !.ui = rendered]
  IN IF top.exc # ""
       THEN [page EXCEPT !.status = "raised",
                         !.error = [exc |-> top.exc, names |-> {}]]
     ELSE IF filtered_df.rows # <<>> THEN analytics(page, ui, fails)
     ELSE [page EXCEPT
             !.warnings = <<"No data available for the selected filters">>]

\* One run of the whole script: arrests.csv as found on disk (or NoFile),
\* the file in the uploader (or NoFile), the stored widget state, and the
\* map styles whose rendering raises in this run.
script(csv, file, ui, fails) ==
  LET loaded == load_data(csv)
      upload == load_upload(file)
      got == IF loaded.df = None /\ loaded.exc = "" THEN upload ELSE loaded
  IN IF loaded.exc = "" /\ loaded.df = None /\ file = NoFile
       THEN BlankPage("stopped", NoError, None)
     ELSE IF got.exc # ""
       THEN BlankPage("raised", [exc |-> got.exc, names |-> got.names], None)
     ELSE IF got.df.rows = <<>> \/ got.df.columns = {}
       THEN BlankPage("no_data", NoError, got.df)
     ELSE main(got.df, ui, fails)

\* ---------------------------------------------------------- the CSV files

Columns == {"arrest_date", "latitude", "longitude", "ofns_desc", "arrest_boro"}

\* The cells of one CSV line.
Cell(ts, lat, lon, crime, boro) ==
  [arrest_date |-> ts, latitude |-> lat, longitude |-> lon,
   ofns_desc |-> crime, arrest_boro |-> boro]

\* pd.read_csv: the frame of the lines, restricted to the columns the file
\* has, labelled 0, 1, ... in file order.
read_csv(columns, lines) ==
  [columns |-> columns,
   rows |-> [i \in 1..Len(lines) |->
               [c \in columns \cup {"index"} |->
                  IF c = "index" THEN i - 1 ELSE lines[i][c]]]]

\* Every file of at most MaxRows lines over the given cells.
Files(columnSets, cells) ==
  {read_csv(cols, lines) :
     cols \in columnSets,
     lines \in UNION {[1..n -> cells] : n \in 0..MaxRows}}

Stamps == {<<2020, 1, 9>>, <<2020, 2, 17>>, <<2021, 1, 9>>}

\* Files with usable coordinates: the input of the filters and aggregates.
\* Records without a region are those of January 2020.
PipelineFiles ==
  Files({Columns},
        {Cell(ts, <<40>>, <<-74>>, crime, boro) :
           ts \in Stamps,
           crime \in {"BURGLARY", "ROBBERY"},
           boro \in {"K", "M"}}
        \cup
        {Cell(<<2020, 1, 9>>, <<40>>, <<-74>>, crime, NaN) :
           crime \in {"BURGLARY", "ROBBERY"}})

\* Files with every kind of coordinate, and files lacking a column.
LoaderFiles ==
  Files({Columns, Columns \ {"latitude"}, Columns \ {"arrest_date"},
         Columns \ {"ofns_desc"}},
        {Cell(<<2020, 1, 9>>, lat, lon, "ROBBERY", "K") :
           lat \in {<<>>, <<0>>, <<40>>},
           lon \in {<<>>, <<0>>, <<-74>>}})

\* Small files for the map branches.
MapFiles ==
  Files({Columns},
        {Cell(<<2020, 1, 9>>, <<40>>, <<-74>>, crime, "K") :
           crime \in {"BURGLARY", "ROBBERY"}})

\* ------------------------------------------------------ the state machine

VARIABLES
  arrests_csv,  \* arrests.csv as read from disk, or NoFile
  uploaded,     \* the file in the uploader, or NoFile
  page          \* what the last run of the script left: its variables, what
                \* it rendered, how it ended, and the stored widget state

vars == <<arrests_csv, uploaded, page>>

Init(files) ==
  /\ arrests_csv \in files \cup {NoFile}
  /\ uploaded = NoFile
  /\ page = BlankPage("boot", NoError, None)

\* A run of the script with the given stored widget state.  The map styles
\* that fail to render are the environment's choice, among those the run
\* can attempt.
Rerun(ui) ==
  /\ \E fails \in SUBSET styles_of(Widget(ui.map_type, map_types[1])) :
       page' = script(arrests_csv, uploaded, ui, fails)
  /\ UNCHANGED <<arrests_csv, uploaded>>

\* The session starts: the first run.
Start ==
  /\ page.status = "boot"
  /\ Rerun(page.ui)

\* The user puts a file into the uploader, which is on the page only while
\* the run stops for it.
Upload(files) ==
  /\ page.status = "stopped"
  /\ \E f \in files :
       /\ uploaded' = f
       /\ page' = script(arrests_csv, f, page.ui, {})
  /\ UNCHANGED arrests_csv

SelectCrimes ==
  /\ page.status = "done"
  /\ \E crimes \in SUBSET Range(crime_types_ordered(page.df)) :
       /\ crimes # page.selected_crimes
       /\ Rerun([page.ui EXCEPT !.selected_crimes = <<crimes>>])

SelectMonth ==
  /\ page.status = "done"
  /\ \E month \in Range(available_months(page.df)) :
       /\ month # page.selected_month
       /\ Rerun([page.ui EXCEPT !.selected_month = <<month>>])

\* The year selectbox exists only for more than one year.
SelectYear ==
  /\ page.status = "done"
  /\ Len(available_years(page.df)) > 1
  /\ \E year \in Range(available_years(page.df)) :
       /\ year # page.selected_year
       /\ Rerun([page.ui EXCEPT !.selected_year = <<year>>])

SelectBoroughs ==
  /\ page.status = "done"
  /\ \E boroughs \in SUBSET Range(available_boroughs(page.df)) :
       /\ boroughs # page.selected_boroughs
       /\ Rerun([page.ui EXCEPT !.selected_boroughs = <<boroughs>>])

\* The map radio and the trend checkbox are on the page only below a
\* non-empty filtered_df.
SelectMapType ==
  /\ page.status = "done"
  /\ page.filtered_df.rows # <<>>
  /\ \E type \in Range(map_types) :
       /\ type # page.map_type
       /\ Rerun([page.ui EXCEPT !.map_type = <<type>>])

ToggleTrend ==
  /\ page.status = "done"
  /\ page.filtered_df.rows # <<>>
  /\ Rerun([page.ui EXCEPT !.show_trend = <<~page.show_trend>>])

Filters ==
  \/ SelectCrimes
  \/ SelectMonth
  \/ SelectYear
  \/ SelectBoroughs
  \/ ToggleTrend

\* The filters and aggregates: arrests.csv is any pipeline file.
Next ==
  \/ Start
  \/ Upload(MapFiles)
  \/ Filters

Spec == Init(PipelineFiles) /\ [][Next]_vars

\* The loader, on both paths, over files with every kind of coordinate and
\* files lacking a column.  These files hold one month and one year.
NextLoad ==
  \/ Start
  \/ Upload(LoaderFiles)
  \/ SelectCrimes
  \/ SelectBoroughs
  \/ ToggleTrend

SpecLoad == Init(LoaderFiles) /\ [][NextLoad]_vars

\* The map branches, over small files of one month and one year.
NextMap ==
  \/ Start
  \/ Upload(MapFiles)
  \/ SelectCrimes
  \/ SelectBoroughs
  \/ ToggleTrend
  \/ SelectMapType

SpecMap == Init(MapFiles) /\ [][NextMap]_vars

\* ------------------------------------------------------------- properties

\* The run reached the filters: the table is loaded, with every column.
Filtered == page.status = "done"

FilteredRows == Range(page.filtered_df.rows)

Labels(frame) == Column(frame, "index")

\* The four predicates of the FilterSpec the page shows, for a table row.
Passes(r) ==
  /\ r["ofns_desc"] \in page.selected_crimes
  /\ r["month"] = page.selected_month
  /\ r["year"] = page.selected_year
  /\ r["arrest_boro"] \in page.selected_boroughs

\* A row without its color cell.
Uncolored(r) == [c \in (DOMAIN r) \ {"color"} |-> r[c]]

RECURSIVE Total(_)
\* The sum of the values of a mapping.
Total(counts) ==
  IF DOMAIN counts = {} THEN 0
  ELSE LET k == CHOOSE x \in DOMAIN counts : TRUE
       IN counts[k] + Total([x \in (DOMAIN counts) \ {k} |-> counts[x]])

\* C1: the filtered subset holds exactly the table's records that satisfy
\* all four predicates (category in categories, month, year, region in
\* regions): every record of the subset is a table record satisfying the
\* four, and every table record outside the subset fails one of them.
C1_FilterSoundAndComplete ==
  Filtered =>
    /\ \A r \in FilteredRows :
         Uncolored(r) \in Range(page.df.rows) /\ Passes(r)
    /\ \A r \in Range(page.df.rows) :
         r["index"] \notin Range(Labels(page.filtered_df)) => ~Passes(r)

\* A subset of one record next to a table record that fails only the year.
C1_Witness ==
  /\ Filtered
  /\ Len(page.filtered_df.rows) = 1
  /\ \E r \in Range(page.df.rows) :
       /\ r["index"] \notin Range(Labels(page.filtered_df))
       /\ r["ofns_desc"] \in page.selected_crimes
       /\ r["month"] = page.selected_month
       /\ r["arrest_boro"] \in page.selected_boroughs
       /\ r["year"] # page.selected_year

\* What a run shows of the monthly trend.
TrendShown(p) ==
  [shown |-> "fig_trend" \in Range(p.charts), series |-> p.monthly_data]

\* C2: the monthly trend does not depend on the selected month: with the
\* trend ticked, the run for any other available month (same categories,
\* regions and year) shows the same series, and shows it at all.
C2_TrendIndependentOfMonth ==
  (Filtered /\ page.show_trend) =>
    \A month \in Range(available_months(page.df)) :
      TrendShown(script(arrests_csv, uploaded,
                        [page.ui EXCEPT !.selected_month = <<month>>],
                        page.fails))
        = TrendShown(page)

\* The file the table was loaded from.
Source == IF arrests_csv # NoFile THEN arrests_csv ELSE uploaded

\* The loader went through the file: the run did not stop for an upload
\* and did not raise while loading.
Loaded ==
  /\ page.status \in {"done", "no_data"}
  /\ Columns \subseteq Source.columns

\* C3 as the spec states it: a raw row is dropped exactly when a coordinate
\* is null or both are zero.
Retained(r) ==
  /\ ~IsNaNf(r["latitude"])
  /\ ~IsNaNf(r["longitude"])
  /\ ~(r["latitude"] = <<0>> /\ r["longitude"] = <<0>>)

\* C3: the loaded table holds, in file order, exactly the raw rows whose
\* coordinates are both non-null and not both zero.
C3_DropsNullOrBothZero ==
  Loaded =>
    Labels(page.df) =
      Labels(Mask(Source, {i \in 1..Len(Source.rows) :
                             Retained(Source.rows[i])}))

\* C4: the per-category counts, the per-hour counts and (when built) the
\* per-region counts each sum to the number of records of the subset.
C4_CountsSumToSubset ==
  Filtered =>
    /\ Total(page.crime_counts) = Len(page.filtered_df.rows)
    /\ Total([i \in DOMAIN page.hourly_counts |-> page.hourly_counts[i].count])
         = Len(page.filtered_df.rows)
    /\ "fig_borough" \in Range(page.charts) =>
         Total(page.borough_counts) = Len(page.filtered_df.rows)

\* The three mappings built from a subset of two records of one category,
\* two regions and one hour.
C4_Witness ==
  /\ Filtered
  /\ Len(page.filtered_df.rows) = 2
  /\ "fig_borough" \in Range(page.charts)
  /\ Cardinality(DOMAIN page.borough_counts) = 2
  /\ Cardinality(DOMAIN page.crime_counts) = 1
  /\ Len(page.hourly_counts) = 1

\* The number of subset records of a category.
InSubset(c) ==
  Cardinality({i \in 1..Len(page.filtered_df.rows) :
                 page.filtered_df.rows[i]["ofns_desc"] = c})

SubsetCategories == {r["ofns_desc"] : r \in FilteredRows}

NoMatch ==
  /\ page.status \in {"done", "raised"}
  /\ page.df.rows # <<>>
  /\ Columns \cup TimeFeatures \subseteq page.df.columns
  /\ \A r \in Range(page.df.rows) : ~Passes(r)

\* C6: when no record matches, the run ends without raising, the filtered
\* count is 0, the top category is "N/A", and no chart, map or count
\* mapping is built.
C6_EmptySubsetIsNotAnError ==
  NoMatch =>
    /\ page.status = "done"
    /\ page.total_arrests = 0
    /\ page.summary.filtered_records = 0
    /\ page.filtered_df.rows = <<>>
    /\ page.top_crime_type = "N/A"
    /\ page.charts = <<>>
    /\ page.maps = <<>>
    /\ page.crime_counts = <<>>
    /\ page.hourly_counts = <<>>
    /\ page.borough_counts = <<>>
    /\ page.monthly_data = <<>>

\* No record matches because no category is selected.
C6_Witness ==
  /\ NoMatch
  /\ page.selected_crimes = {}
  /\ page.selected_boroughs # {}

\* The columns a file lacks.
MissingColumns == Columns \ Source.columns

\* C7: loading a file that lacks a required column ends in a SchemaError
\* naming the missing column, on both load paths.
C7_MissingColumnIsSchemaError ==
  (page.status \notin {"boot", "stopped"} /\ MissingColumns # {}) =>
    /\ page.status = "raised"
    /\ page.error.exc = "SchemaError"
    /\ page.error.names # {}
    /\ page.error.names \subseteq MissingColumns

\* The table as the loader returns it for the session's file.
FreshTable ==
  IF arrests_csv # NoFile THEN load_data(arrests_csv).df
  ELSE load_upload(uploaded).df

\* The position of a label in the table.
PositionOf(label) ==
  CHOOSE i \in 1..Len(page.df.rows) : page.df.rows[i]["index"] = label

\* C8: after any run the table is the loaded table, record for record and
\* cell for cell, and the subset lists its records in table order.
C8_TableUnchangedSubsetInOrder ==
  Filtered =>
    /\ page.df = FreshTable
    /\ Range(Labels(page.filtered_df)) \subseteq Range(Labels(page.df))
    /\ \A i, j \in 1..Len(page.filtered_df.rows) :
         i < j => PositionOf(page.filtered_df.rows[i]["index"])
                    < PositionOf(page.filtered_df.rows[j]["index"])

\* A colored subset of two records, seen after a change of filters.
C8_Witness ==
  /\ Filtered
  /\ "color" \in page.filtered_df.columns
  /\ Labels(page.filtered_df) = <<0, 1>>
  /\ page.selected_crimes = {"BURGLARY"}

\* C9: the trend series is ascending by month, holds exactly the months of
\* the scoped records, and the highlighted position (selected_month - 1,
\* counted from 0) holds the entry of the selected month.
C9_HighlightIsSelectedMonth ==
  (Filtered /\ page.show_trend) =>
    /\ \A i, j \in 1..Len(page.monthly_data) :
         i < j => page.monthly_data[i].month < page.monthly_data[j].month
    /\ {e.month : e \in Range(page.monthly_data)} =
         {r["month"] : r \in {t \in Range(page.df.rows) :
            /\ t["ofns_desc"] \in page.selected_crimes
            /\ t["year"] = page.selected_year
            /\ t["arrest_boro"] \in page.selected_boroughs}}
    /\ page.vline_x # <<>>
    /\ page.vline_x[1] + 1 \in 1..Len(page.monthly_data)
    /\ page.monthly_data[page.vline_x[1] + 1].month = page.selected_month

StreetMap == Filtered /\ page.map_type = "Street Map"

\* The position of the first street style that renders, 5 when none does.
FirstRendering ==
  CHOOSE i \in 1..(Len(street_styles) + 1) :
    /\ i <= Len(street_styles) => street_styles[i] \notin page.fails
    /\ \A j \in 1..(i - 1) : street_styles[j] \in page.fails

\* C10: in Street Map mode the styles are tried in list order up to the
\* first that renders, which is the one map shown; the standard map with a
\* warning is shown if and only if all four raise; the run does not raise.
C10_StreetMapFallback ==
  StreetMap =>
    /\ page.status = "done"
    /\ Len(page.maps) = 1
    /\ IF FirstRendering <= Len(street_styles)
         THEN /\ page.attempts = SubSeq(street_styles, 1, FirstRendering)
              /\ page.maps = <<street_styles[FirstRendering]>>
              /\ page.warnings = <<>>
         ELSE /\ page.attempts = street_styles
              /\ page.maps = <<"st.map">>
              /\ page.warnings # <<>>

\* The third style renders after the first two raised.
C10_Witness ==
  /\ StreetMap
  /\ page.fails = {street_styles[1], street_styles[2], street_styles[4]}
  /\ page.maps = <<street_styles[3]>>

====
